---- MODULE Spec2Model ----
(***************************************************************************)
(* Egg-sales forecasting: the Dash application (app.py) and the Streamlit  *)
(* script (main.py).                                                       *)
(*                                                                         *)
(* app.py loads two CSV files once at import time, fits a Prophet model,   *)
(* writes the predictions onto the test frame and then serves two          *)
(* callbacks, update_graph and show_prediction, over the module globals    *)
(* train_df, test_df and data_loaded.  main.py is a script that Streamlit  *)
(* executes from top to bottom on every interaction.                       *)
(*                                                                         *)
(* Encodings.  A timestamp is the integer y*10000 + m*100 + d; NaT and NaN *)
(* are integers outside the ranges of timestamps and of sales figures.  A  *)
(* CSV date cell "a/b/c" is the tuple <<a, b, c>>, an ISO string "y-m-d"   *)
(* the tuple <<y, m, d>>.  Predictions (yhat) are fixed-point numbers in   *)
(* tenths, so that rounding is observable; sales figures are integers.     *)
(***************************************************************************)
EXTENDS Integers, Sequences, FiniteSets, TLC

VARIABLES
    program,      \* which entry point this process runs: "app" or "main"
    trainFile,    \* rows of train_egg_sales.csv: [Date |-> cell, EggSales |-> int]
    testFile,     \* rows of test_egg_sales.csv: date cells
    pc,           \* app.py: "start" before the module-level block ran, "serving" after
    data_loaded,  \* app.py global
    train_df,     \* app.py global
    test_df,      \* app.py global
    model,        \* app.py global: the fitted Prophet model (opaque fitted state)
    fitCount,     \* number of calls of Prophet.fit made by this process
    stdout,       \* what the except clause printed ("" when nothing)
    cache,        \* main.py: the st.cache entry of load_data
    reply         \* the return value of the latest callback / script run

vars == <<program, trainFile, testFile, pc, data_loaded, train_df, test_df,
          model, fitCount, stdout, cache, reply>>

-----------------------------------------------------------------------------
(* Bounds of the model *)

MaxTrain == 6
MaxTest == 3
MaxMainTrain == 2
MaxRuns == 2

-----------------------------------------------------------------------------
(* Dates *)

NaT == 0
NaN == -1

Timestamp(y, m, d) == y * 10000 + m * 100 + d

YearOf(ts) == IF ts = NaT THEN NaN ELSE ts \div 10000
MonthOf(ts) == IF ts = NaT THEN NaN ELSE ((ts \div 100) % 100)

IsLeap(y) == (y % 4 = 0 /\ y % 100 # 0) \/ y % 400 = 0

DaysInMonth(m, y) ==
    IF m \in {4, 6, 9, 11} THEN 30
    ELSE IF m = 2 THEN (IF IsLeap(y) THEN 29 ELSE 28)
    ELSE 31

ValidDate(y, m, d) == m \in 1..12 /\ d >= 1 /\ d <= DaysInMonth(m, y)

\* pd.to_datetime(cell, dayfirst=True, errors='coerce') on "a/b/c": the day is
\* read first; dayfirst is a preference, so a cell that is a date only when read
\* month-first is still parsed; anything else is coerced to NaT.
ParseDayFirst(cell) ==
    IF ValidDate(cell[3], cell[2], cell[1]) THEN Timestamp(cell[3], cell[2], cell[1])
    ELSE IF ValidDate(cell[3], cell[1], cell[2]) THEN Timestamp(cell[3], cell[1], cell[2])
    ELSE NaT

\* pd.to_datetime(cell) on "a/b/c" without dayfirst and without errors='coerce':
\* the month is read first, the day first only when that fails; NaT here stands
\* for the exception raised on a cell that is no date.
ParseDefault(cell) ==
    IF ValidDate(cell[3], cell[1], cell[2]) THEN Timestamp(cell[3], cell[1], cell[2])
    ELSE IF ValidDate(cell[3], cell[2], cell[1]) THEN Timestamp(cell[3], cell[2], cell[1])
    ELSE NaT

\* pd.to_datetime on an ISO string "y-m-d"; NaT stands for the exception raised.
ParseISO(s) ==
    IF ValidDate(s[1], s[2], s[3]) THEN Timestamp(s[1], s[2], s[3]) ELSE NaT

\* Series == scalar on datetimes: NaT compares unequal to everything.
DateEq(a, b) == a # NaT /\ b # NaT /\ a = b

-----------------------------------------------------------------------------
(* Sequences *)

RECURSIVE SumSeq(_)
SumSeq(s) == IF s = <<>> THEN 0 ELSE Head(s) + SumSeq(Tail(s))

RECURSIVE MaxSeq(_)
MaxSeq(s) ==
    IF Len(s) = 1 THEN s[1]
    ELSE LET r == MaxSeq(Tail(s)) IN IF Head(s) >= r THEN Head(s) ELSE r

\* the positions of the rows of df, in order, whose Date is not NaT: the index of
\* df.dropna(subset=['Date'])
RECURSIVE DatedIndex(_, _)
DatedIndex(df, i) ==
    IF i > Len(df) THEN <<>>
    ELSE (IF df[i].Date # NaT THEN <<i>> ELSE <<>>) \o DatedIndex(df, i + 1)

SeqsUpTo(S, n) == UNION {[1..k -> S] : k \in 0..n}

\* round-half-to-even of num/den (num >= 0, den > 0): Python's round() and the
\* '.0f' format on a value that is exactly representable
RoundHalfEven(num, den) ==
    LET q == num \div den
        r == num % den
    IN IF 2 * r < den THEN q
       ELSE IF 2 * r > den THEN q + 1
       ELSE IF q % 2 = 0 THEN q ELSE q + 1

-----------------------------------------------------------------------------
(* The inputs: the two CSV files the process finds in its directory *)

TrainRows ==
    { [Date |-> <<15, 1, 2021>>, EggSales |-> 100],
      [Date |-> <<20, 1, 2021>>, EggSales |-> 121],
      [Date |-> <<15, 2, 2022>>, EggSales |-> 90],
      [Date |-> <<31, 2, 2021>>, EggSales |-> 50] }      \* 31 February: no date

TestCells == { <<15, 1, 2022>>, <<20, 1, 2022>>, <<31, 2, 2022>> }

TrainFiles == SeqsUpTo(TrainRows, MaxTrain)
TestFiles == SeqsUpTo(TestCells, MaxTest)

ScenarioTrain ==
    << [Date |-> <<15, 1, 2021>>, EggSales |-> 100],
       [Date |-> <<20, 1, 2021>>, EggSales |-> 121],
       [Date |-> <<15, 2, 2022>>, EggSales |-> 90] >>

ScenarioTest == << <<15, 1, 2022>>, <<31, 2, 2022>>, <<20, 1, 2022>> >>

\* what the date picker / the dropdowns can send
PickerDates == { <<2022, 1, 15>>, <<2022, 1, 20>>, <<2022, 6, 30>> }
Months == {1, 2}
Years == {2021, 2022}

-----------------------------------------------------------------------------
(* Prophet, the forecasting library: a black box behind fit / predict *)

\* The fitted state is opaque; which one a fit produces is left open.
Models == { [slope |-> 5, offset |-> 1], [slope |-> 3, offset |-> 30] }
NoModel == [slope |-> 0, offset |-> 0]

\* yhat of the fitted model m at timestamp ds, in tenths
Yhat(m, ds) == 800 + (((ds % 100) * m.slope + m.offset) % 100)

\* Prophet.fit raises ValueError on a history of fewer than 2 rows
FitRaises(history) == Len(history) < 2

\* stable insertion of ds into an ascending sequence
RECURSIVE InsertSorted(_, _)
InsertSorted(ds, sorted) ==
    IF sorted = <<>> THEN <<ds>>
    ELSE IF Head(sorted) <= ds THEN <<Head(sorted)>> \o InsertSorted(ds, Tail(sorted))
    ELSE <<ds>> \o sorted

RECURSIVE SortValues(_)
SortValues(dates) ==
    IF dates = <<>> THEN <<>>
    ELSE InsertSorted(dates[Len(dates)], SortValues(SubSeq(dates, 1, Len(dates) - 1)))

\* Prophet.predict(future): setup_dataframe sorts the frame by ds and resets its
\* index before the forecast is computed, so forecast['yhat'] is in ascending
\* date order, one value per row of future.
Predict(m, dates) ==
    LET ds == SortValues(dates)
    IN [k \in 1..Len(ds) |-> Yhat(m, ds[k])]

\* Prophet.predict raises ValueError('Dataframe has no rows.')
PredictRaises(dates) == dates = <<>>

-----------------------------------------------------------------------------
(* app.py: the module-level block *)

\* lines 27-30 and 32-35: parse the Date column, derive Year and Month
ReadTrain(file) ==
    [i \in 1..Len(file) |->
        LET ts == ParseDayFirst(file[i].Date)
        IN [Date |-> ts, Year |-> YearOf(ts), Month |-> MonthOf(ts),
            EggSales |-> file[i].EggSales]]

ReadTest(file) ==
    [i \in 1..Len(file) |->
        LET ts == ParseDayFirst(file[i])
        IN [Date |-> ts, Year |-> YearOf(ts), Month |-> MonthOf(ts),
            Prediction |-> NaN]]

\* df.dropna(subset=['Date'])
DropNaDate(df) == SelectSeq(df, LAMBDA r : r.Date # NaT)

\* a merge that keeps only the rows that were predicted
AssignPredictionsDropping(df, index, yhat) ==
    [k \in 1..Len(index) |-> [df[index[k]] EXCEPT !.Prediction = yhat[k]]]

\* line 44: test_df.loc[future.index, 'Egg Sales Prediction'] = forecast['yhat'].values
\* the k-th label of future.index receives the k-th value; the new column is NaN
\* on every other row.
AssignPredictions(df, index, yhat) ==
    [i \in 1..Len(df) |->
        IF \E k \in 1..Len(index) : index[k] = i
        THEN [df[i] EXCEPT !.Prediction = yhat[CHOOSE k \in 1..Len(index) : index[k] = i]]
        ELSE df[i]]

\* The outcome of the try block for the given files: trainOk / testOk say whether
\* read_csv finds a readable file with the expected columns, fitOk whether the
\* library's fit succeeds on a history it accepts, m is the fitted state.
StartupOutcome(trainOk, testOk, fitOk, m) ==
    LET tr == ReadTrain(trainFile)
        te == ReadTest(testFile)
        prophet_df == DropNaDate(tr)
        future == DropNaDate(te)
        index == DatedIndex(te, 1)
        forecast == Predict(m, [k \in 1..Len(future) |-> future[k].Date])
        \* lines 47-51: the except clause
        failed(fits) ==
            [data_loaded |-> FALSE, train_df |-> <<>>, test_df |-> <<>>,
             model |-> NoModel, fits |-> fits, stdout |-> "Error loading data"]
    IN IF ~trainOk THEN failed(0)
       ELSE IF ~testOk THEN failed(0)
       ELSE IF FitRaises(prophet_df) THEN failed(1)
       ELSE IF ~fitOk THEN failed(1)
       ELSE IF PredictRaises(future) THEN failed(1)
       ELSE [data_loaded |-> TRUE, train_df |-> tr,
             test_df |-> AssignPredictions(te, index, forecast),
             model |-> m, fits |-> 1, stdout |-> ""]

Startup ==
    /\ program = "app"
    /\ pc = "start"
    /\ \E trainOk \in BOOLEAN, testOk \in BOOLEAN, fitOk \in BOOLEAN, m \in Models :
          LET out == StartupOutcome(trainOk, testOk, fitOk, m)
          IN /\ data_loaded' = out.data_loaded
             /\ train_df' = out.train_df
             /\ test_df' = out.test_df
             /\ model' = out.model
             /\ fitCount' = fitCount + out.fits
             /\ stdout' = out.stdout
    /\ pc' = "serving"
    /\ UNCHANGED <<program, trainFile, testFile, cache, reply>>

-----------------------------------------------------------------------------
(* app.py: update_graph *)

\* a filter that forgets the year
FilterMonthOnly(df, month, year) ==
    SelectSeq(df, LAMBDA r : r.Month = month)

\* line 182: train_df[(train_df['Month'] == month) & (train_df['Year'] == year)]
FilterWindow(df, month, year) ==
    SelectSeq(df, LAMBDA r : r.Month = month /\ r.Year = year)

\* a threshold that is off by one
HasTrendFrom5(filtered) == Len(filtered) >= 5

\* line 214: the trend line is drawn only for more than 5 points
HasTrend(filtered) == Len(filtered) > 5

\* np.polyfit(range(n), y, 1) and np.poly1d(z)(range(n)) in exact arithmetic:
\* least squares of y against the positions 0..n-1.  slope = slope/den,
\* intercept = intercept/den, and the fitted value at position i-1 is
\* fitted[i]/den.
RECURSIVE WeightedSum(_, _)
WeightedSum(y, i) ==
    IF i > Len(y) THEN 0 ELSE (i - 1) * y[i] + WeightedSum(y, i + 1)

Polyfit(y) ==
    LET n == Len(y)
        Sx == SumSeq([i \in 1..n |-> i - 1])
        Sxx == SumSeq([i \in 1..n |-> (i - 1) * (i - 1)])
        Sy == SumSeq(y)
        Sxy == WeightedSum(y, 1)
        den == n * Sxx - Sx * Sx
        slope == n * Sxy - Sx * Sy
        intercept == Sy * Sxx - Sx * Sxy
    IN [slope |-> slope, intercept |-> intercept, den |-> den,
        fitted |-> [i \in 1..n |-> intercept + slope * (i - 1)]]

\* lines 196-224: the traces of the figure
Traces(filtered) ==
    LET x == [i \in 1..Len(filtered) |-> filtered[i].Date]
        y == [i \in 1..Len(filtered) |-> filtered[i].EggSales]
        sales == [name |-> "Egg Sales", x |-> x, y |-> y, den |-> 1]
        p == Polyfit(y)
        trend == [name |-> "Trend Line", x |-> x, y |-> p.fitted, den |-> p.den]
    IN IF HasTrend(filtered) THEN <<sales, trend>> ELSE <<sales>>

\* cards that truncate the mean instead of rounding it
StatsCardsTruncated(stats_data) ==
    [total |-> SumSeq(stats_data),
     mean |-> SumSeq(stats_data) \div Len(stats_data),
     max |-> MaxSeq(stats_data)]

\* lines 260-283: the statistics cards, as the numbers they display.  sum and max
\* of integer sales are shown as they are ('{:,.0f}'); the mean is a float shown
\* with '{:.0f}', that is rounded half-to-even to a whole number.
StatsCards(stats_data) ==
    [total |-> SumSeq(stats_data),
     mean |-> RoundHalfEven(SumSeq(stats_data), Len(stats_data)),
     max |-> MaxSeq(stats_data)]

\* a callback that forgets the guard
GraphUnavailableSkipped == FALSE

\* line 171
GraphUnavailable == ~data_loaded \/ train_df = <<>>

update_graph(month, year) ==
    LET filtered == FilterWindow(train_df, month, year)
        stats_data == [i \in 1..Len(filtered) |-> filtered[i].EggSales]
        answer(kind, body) ==
            [op |-> "update_graph", args |-> <<month, year>>, kind |-> kind, body |-> body]
    IN IF GraphUnavailable THEN answer("DataNotAvailable", <<>>)
       ELSE IF filtered = <<>> THEN answer("NoDataFound", <<>>)
       ELSE answer("Graph", [traces |-> Traces(filtered), stats |-> StatsCards(stats_data)])

\* a callback that narrows the global frame to the window it was asked for
UpdateGraphOverwriting ==
    /\ program = "app"
    /\ pc = "serving"
    /\ \E month \in Months, year \in Years :
          /\ reply' = update_graph(month, year)
          /\ train_df' = FilterWindow(train_df, month, year)
    /\ UNCHANGED <<program, trainFile, testFile, pc, data_loaded, test_df,
                   model, fitCount, stdout, cache>>

UpdateGraph ==
    /\ program = "app"
    /\ pc = "serving"
    /\ \E month \in Months, year \in Years : reply' = update_graph(month, year)
    /\ UNCHANGED <<program, trainFile, testFile, pc, data_loaded, train_df, test_df,
                   model, fitCount, stdout, cache>>

-----------------------------------------------------------------------------
(* app.py: show_prediction *)

NoDate == <<>>

\* a lookup that falls back on every dated record when no date matches
MatchingRowsOrAny(df, ts) ==
    IF \E i \in 1..Len(df) : DateEq(df[i].Date, ts)
    THEN SelectSeq(df, LAMBDA r : DateEq(r.Date, ts))
    ELSE SelectSeq(df, LAMBDA r : r.Date # NaT)

\* line 310: test_df[test_df['Date'] == selected_date]
MatchingRows(df, ts) == SelectSeq(df, LAMBDA r : DateEq(r.Date, ts))

\* a lookup that takes the last matching row
PickLastRow(row) == row[Len(row)]

\* line 312: row.iloc[0] is the first matching row
PickRow(row) == row[1]

\* line 312: not row.empty and pd.notna(row.iloc[0]['Egg Sales Prediction'])
HasPrediction(row) == row # <<>> /\ PickRow(row).Prediction # NaN

\* a conversion that truncates: int(prediction)
RoundPredictionTruncated(yhat) == yhat \div 10

\* line 313: int(round(prediction)); the prediction is in tenths
RoundPrediction(yhat) == RoundHalfEven(yhat, 10)

\* a callback that forgets the guard
PredictionUnavailableSkipped == FALSE

\* line 300
PredictionUnavailable == ~data_loaded \/ test_df = <<>>

show_prediction(selected_date) ==
    LET answer(kind, body) ==
            [op |-> "show_prediction", args |-> selected_date, kind |-> kind, body |-> body]
        row == MatchingRows(test_df, ParseISO(selected_date))
    IN IF PredictionUnavailable THEN answer("PredictionUnavailable", <<>>)
       ELSE IF selected_date = NoDate THEN answer("Empty", <<>>)
       ELSE IF HasPrediction(row)
            THEN answer("PredictionResult",
                        [pred_value |-> RoundPrediction(PickRow(row).Prediction),
                         pred_date |-> PickRow(row).Date])
            ELSE answer("DateOutOfRange", <<>>)

ShowPrediction ==
    /\ program = "app"
    /\ pc = "serving"
    /\ \E selected_date \in PickerDates \cup {NoDate} :
          reply' = show_prediction(selected_date)
    /\ UNCHANGED <<program, trainFile, testFile, pc, data_loaded, train_df, test_df,
                   model, fitCount, stdout, cache>>

-----------------------------------------------------------------------------
(* main.py: the Streamlit script *)

\* what the user can type into the text area, split at the commas
TextInputs ==
    { <<>>,
      << <<2022, 1, 15>> >>,
      << <<2022, 1, 20>>, <<2022, 1, 15>> >>,
      << <<2022, 1, 15>>, <<2022, 2, 31>> >> }      \* 31 February: no date

\* load_data, lines 6-10: to_datetime is called without errors='coerce', so one
\* cell that is no date raises
LoadDataRaises(file) == \E i \in 1..Len(file) : ParseDefault(file[i].Date) = NaT

LoadData(file) ==
    [i \in 1..Len(file) |-> [ds |-> ParseDefault(file[i].Date), y |-> file[i].EggSales]]

\* predict, lines 17-20
PredictDatesRaise(future_dates) ==
    \E i \in 1..Len(future_dates) : ParseISO(future_dates[i]) = NaT

PredictTable(m, future_dates) ==
    LET ds == SortValues([i \in 1..Len(future_dates) |-> ParseISO(future_dates[i])])
    IN [k \in 1..Len(ds) |-> [ds |-> ds[k], yhat |-> Yhat(m, ds[k])]]

\* One execution of the script: main(), lines 22-32.  button says whether the
\* run was triggered by the Predict button, text is the content of the text area.
MainOutcome(fileOk, fitOk, m, button, text) ==
    LET cached == cache.hit
        df == IF cached THEN cache.df ELSE LoadData(trainFile)
        page(kind, body, fits, keep) ==
            [reply |-> [op |-> "main", args |-> <<button, text>>, kind |-> kind, body |-> body],
             fits |-> fits,
             cache |-> IF keep THEN [hit |-> TRUE, df |-> df] ELSE cache]
    IN IF ~cached /\ ~fileOk THEN page("FileNotFoundError", <<>>, 0, FALSE)
       ELSE IF ~cached /\ LoadDataRaises(trainFile) THEN page("ParserError", <<>>, 0, FALSE)
       ELSE IF FitRaises(df) \/ ~fitOk THEN page("FitError", <<>>, 1, TRUE)
       ELSE IF button /\ text # <<>>
            THEN (IF PredictDatesRaise(text) THEN page("ParserError", <<>>, 1, TRUE)
                  ELSE page("Prediction", PredictTable(m, text), 1, TRUE))
       ELSE page("Page", <<>>, 1, TRUE)

\* lines 27-28: the text area and the Predict button exist in the page only
\* after a run that reached them; the first run, and a run after one that ended
\* in load_data or train_model, comes with an empty text and no click.
WidgetsRendered ==
    /\ reply.op = "main"
    /\ \/ reply.kind \in {"Page", "Prediction"}
       \/ reply.kind = "ParserError" /\ reply.args[1]

MainRun ==
    /\ program = "main"
    /\ fitCount < MaxRuns
    /\ \E fileOk \in BOOLEAN, fitOk \in BOOLEAN, m \in Models,
          button \in (IF WidgetsRendered THEN BOOLEAN ELSE {FALSE}),
          text \in (IF WidgetsRendered THEN TextInputs ELSE {<<>>}) :
          LET out == MainOutcome(fileOk, fitOk, m, button, text)
          IN /\ reply' = out.reply
             /\ fitCount' = fitCount + out.fits
             /\ cache' = out.cache
    /\ UNCHANGED <<program, trainFile, testFile, pc, data_loaded, train_df, test_df,
                   model, stdout>>

-----------------------------------------------------------------------------
(* The process *)

NoReply == [op |-> "none", args |-> <<>>, kind |-> "none", body |-> <<>>]

InitGlobals ==
    /\ pc = "start"
    /\ data_loaded = FALSE
    /\ train_df = <<>>
    /\ test_df = <<>>
    /\ model = NoModel
    /\ fitCount = 0
    /\ stdout = ""
    /\ cache = [hit |-> FALSE, df |-> <<>>]
    /\ reply = NoReply

InitApp ==
    /\ program = "app"
    /\ \/ trainFile \in TrainFiles /\ testFile = ScenarioTest
       \/ trainFile = ScenarioTrain /\ testFile \in TestFiles
    /\ InitGlobals

InitMain ==
    /\ program = "main"
    /\ trainFile \in SeqsUpTo(TrainRows, MaxMainTrain)
    /\ testFile = <<>>
    /\ InitGlobals

Init == InitApp \/ InitMain

Next == Startup \/ UpdateGraph \/ ShowPrediction \/ MainRun

Spec == Init /\ [][Next]_vars

-----------------------------------------------------------------------------
(* Properties *)

\* the training observations: the rows of the training input whose date parses
Usable(file) == SelectSeq(file, LAMBDA r : ParseDayFirst(r.Date) # NaT)

\* the future requests whose date parses
Surviving(file) == SelectSeq(file, LAMBDA c : ParseDayFirst(c) # NaT)

\* the training observations of month m and year y, in input order
InWindow(file, m, y) ==
    SelectSeq(file, LAMBDA r :
        LET ts == ParseDayFirst(r.Date)
        IN ts # NaT /\ (ts \div 100) % 100 = m /\ ts \div 10000 = y)

GraphReply == reply.op = "update_graph" /\ reply.kind = "Graph"
LookupReply == reply.op = "show_prediction"

\* C1: after a successful startup the aligned test set has exactly as many rows
\* as the future-request input, row i being the i-th input row, whatever the
\* number of rows whose date failed to parse.
C1_AlignedLength ==
    data_loaded =>
        /\ Len(test_df) = Len(testFile)
        /\ \A i \in 1..Len(testFile) : test_df[i].Date = ParseDayFirst(testFile[i])

C1_Witness ==
    /\ data_loaded
    /\ Len(test_df) >= 3
    /\ \E i \in 1..Len(testFile) : ParseDayFirst(testFile[i]) = NaT

\* C2: in the aligned test set every row whose date failed to parse has an
\* absent prediction and every dated row holds the prediction the model
\* produced for that row's own date.
C2_OwnDatePrediction ==
    data_loaded =>
        \A i \in 1..Len(test_df) :
            IF test_df[i].Date = NaT
            THEN test_df[i].Prediction = NaN
            ELSE test_df[i].Prediction = Yhat(model, test_df[i].Date)

\* C3: the subset update_graph works on is exactly the training observations
\* of the queried month and year, in their input order; rows of another
\* window and rows without a date are left out, and a window without
\* observations gives the no-data result.
C3_FilterExact ==
    (reply.op = "update_graph" /\ data_loaded) =>
        LET expected == InWindow(trainFile, reply.args[1], reply.args[2])
        IN /\ reply.kind \in {"Graph", "NoDataFound"}
           /\ reply.kind = "NoDataFound" <=> expected = <<>>
           /\ reply.kind = "Graph" =>
                 /\ reply.body.traces[1].x =
                        [i \in 1..Len(expected) |-> ParseDayFirst(expected[i].Date)]
                 /\ reply.body.traces[1].y =
                        [i \in 1..Len(expected) |-> expected[i].EggSales]

C3_Witness ==
    /\ GraphReply
    /\ Len(reply.body.traces[1].y) >= 2
    /\ \E i \in 1..Len(trainFile) : ParseDayFirst(trainFile[i].Date) = NaT
    /\ Len(Usable(trainFile)) > Len(reply.body.traces[1].y)

\* C4 as stated: a window query against an empty training set yields the
\* no-data result.
C4_EmptyTrainingNoData ==
    (reply.op = "update_graph" /\ Usable(trainFile) = <<>>) => reply.kind = "NoDataFound"

\* C4 as amended: a window query against an empty training set yields the
\* data-unavailable result, as a return value; the data-unavailable result is
\* returned exactly when the pipeline did not initialize, and an initialized
\* pipeline answers a window without observations with the no-data result.
C4_EmptyTrainingUnavailable ==
    reply.op = "update_graph" =>
        /\ reply.kind \in {"DataNotAvailable", "NoDataFound", "Graph"}
        /\ reply.kind = "DataNotAvailable" <=> ~data_loaded
        /\ Usable(trainFile) = <<>> => reply.kind = "DataNotAvailable"
        /\ (data_loaded /\ InWindow(trainFile, reply.args[1], reply.args[2]) = <<>>)
              => reply.kind = "NoDataFound"

C4_Witness ==
    /\ reply.op = "update_graph"
    /\ Usable(trainFile) = <<>>
    /\ reply.kind = "DataNotAvailable"

\* C5: a startup that fails (an unreadable input, a fit on fewer than 2 usable
\* observations, a failing fit, a prediction over no rows) leaves the pipeline
\* disabled and says so: the error is printed, every window query and every
\* lookup returns its data-unavailable result and nothing computed from the
\* data that did load; an initialized pipeline never returns those results.
C5_FailureDisables ==
    pc = "serving" =>
        /\ (Len(Usable(trainFile)) < 2 \/ Surviving(testFile) = <<>>) => ~data_loaded
        /\ ~data_loaded =>
              /\ stdout = "Error loading data"
              /\ train_df = <<>> /\ test_df = <<>>
              /\ reply.op = "update_graph" => reply.kind = "DataNotAvailable"
              /\ reply.op = "show_prediction" => reply.kind = "PredictionUnavailable"
        /\ data_loaded =>
              /\ stdout = ""
              /\ reply.kind \notin {"DataNotAvailable", "PredictionUnavailable"}

C5_Witness ==
    /\ pc = "serving"
    /\ ~data_loaded
    /\ Len(Usable(trainFile)) >= 2
    /\ Surviving(testFile) # <<>>
    /\ reply.op = "show_prediction"

\* C6: a lookup that returns a value returns the (rounded) prediction of the
\* first record, in sequence order, whose date is the queried date, and that
\* date; it returns a value whenever that record has a prediction.
C6_FirstExactMatch ==
    (LookupReply /\ data_loaded /\ reply.args # NoDate) =>
        LET ts == Timestamp(reply.args[1], reply.args[2], reply.args[3])
            first(i) == /\ test_df[i].Date = ts
                        /\ \A j \in 1..(i - 1) : test_df[j].Date # ts
        IN /\ reply.kind = "PredictionResult" =>
                 \E i \in 1..Len(test_df) :
                    /\ first(i)
                    /\ reply.body.pred_date = ts
                    /\ 10 * reply.body.pred_value - test_df[i].Prediction \in -5..5
           /\ \A i \in 1..Len(test_df) :
                 (first(i) /\ test_df[i].Prediction # NaN) => reply.kind = "PredictionResult"

C6_Witness ==
    /\ LookupReply
    /\ reply.kind = "PredictionResult"
    /\ \E i, j \in 1..Len(test_df) :
          /\ i < j
          /\ test_df[i].Date = reply.body.pred_date
          /\ test_df[j].Date = reply.body.pred_date
          /\ test_df[j].Prediction - test_df[i].Prediction \notin -10..10

\* C7: a lookup for a date returns the not-found result, a normal return
\* value, exactly when no record has the queried date or the first record with
\* that date has an absent prediction.
C7_NotFound ==
    (LookupReply /\ data_loaded /\ reply.args # NoDate) =>
        LET ts == Timestamp(reply.args[1], reply.args[2], reply.args[3])
            dated == {i \in 1..Len(test_df) : test_df[i].Date = ts}
        IN /\ reply.kind \in {"PredictionResult", "DateOutOfRange"}
           /\ reply.kind = "DateOutOfRange" <=>
                 \/ dated = {}
                 \/ \E i \in dated : /\ \A j \in dated : i <= j
                                      /\ test_df[i].Prediction = NaN

C7_Witness ==
    /\ LookupReply
    /\ data_loaded
    /\ reply.kind = "DateOutOfRange"
    /\ \A i \in 1..Len(test_df) : test_df[i].Date # ParseISO(reply.args)

\* C8: a row whose date cannot be parsed is left out of the dated records and
\* no parse failure ends loading or prediction with an exception.
C8_NoParseCrash ==
    /\ reply.kind # "ParserError"
    /\ data_loaded =>
          \A i \in 1..Len(test_df) :
              ParseDayFirst(testFile[i]) = NaT => test_df[i].Prediction = NaN

\* C9: the figure has no trend line when the subset has 5 or fewer
\* observations; with more than 5 it has one, with one fitted point per
\* observation, the least-squares line of the values against the positions
\* 0..count-1 (the residuals sum to zero and are orthogonal to the positions).
C9_TrendLine ==
    GraphReply =>
        LET t == reply.body.traces
            y == t[1].y
            n == Len(y)
        IN /\ n <= 5 => Len(t) = 1
           /\ n > 5 =>
                /\ Len(t) = 2
                /\ t[2].name = "Trend Line"
                /\ t[2].x = t[1].x
                /\ Len(t[2].y) = n
                /\ t[2].den > 0
                /\ \A i \in 1..(n - 1) : t[2].y[i + 1] - t[2].y[i] = t[2].y[2] - t[2].y[1]
                /\ SumSeq([i \in 1..n |-> t[2].den * y[i] - t[2].y[i]]) = 0
                /\ SumSeq([i \in 1..n |-> (i - 1) * (t[2].den * y[i] - t[2].y[i])]) = 0

C9_Witness ==
    /\ GraphReply
    /\ Len(reply.body.traces) = 2
    /\ Len(reply.body.traces[1].y) > 5
    /\ reply.body.traces[2].y[1] # reply.body.traces[2].y[2]

C11_RoundedReturnUnroundedStore ==
    [][(reply'.op = "show_prediction" /\ reply'.kind = "PredictionResult") =>
          /\ test_df' = test_df
          /\ \E i \in 1..Len(test_df') :
                /\ test_df'[i].Date = reply'.body.pred_date
                /\ \A j \in 1..(i - 1) : test_df'[j].Date # reply'.body.pred_date
                /\ 2 * (10 * reply'.body.pred_value - test_df'[i].Prediction) \in -10..10
                /\ test_df'[i].Prediction = 876 => reply'.body.pred_value = 88]_vars

C11_Witness ==
    /\ LookupReply
    /\ reply.kind = "PredictionResult"
    /\ reply.body.pred_value = 88
    /\ \E i \in 1..Len(test_df) :
          /\ test_df[i].Date = reply.body.pred_date
          /\ \A j \in 1..(i - 1) : test_df[j].Date # reply.body.pred_date
          /\ test_df[i].Prediction = 876

\* C12: once app.py serves, no window query and no lookup, in any order,
\* changes the training set, the aligned test set, the fitted model or the
\* loaded flag, and a query repeated with the same arguments right after
\* itself returns the same result.
C12_QueriesReadOnly ==
    [][(program = "app" /\ pc = "serving") =>
          /\ train_df' = train_df
          /\ test_df' = test_df
          /\ data_loaded' = data_loaded
          /\ model' = model
          /\ (reply'.op = reply.op /\ reply'.args = reply.args) => reply' = reply]_vars

C12_Witness ==
    /\ program = "app"
    /\ pc = "serving"
    /\ data_loaded
    /\ reply.op = "update_graph"
    /\ reply.kind = "Graph"
    /\ Len(reply.body.traces[1].y) < Len(train_df)

\* C13: the model is fitted at most once per process, during initialization
\* and before any query is served: app.py answers its callbacks only after
\* the startup block, and no window query, lookup or prediction request
\* (main.py) is answered by a process that has fitted a second time.
C13_FitOnce ==
    /\ program = "app" => fitCount <= 1
    /\ reply.op \in {"update_graph", "show_prediction"} =>
          pc = "serving" /\ (data_loaded => fitCount = 1)
    /\ (reply.op = "main" /\ reply.kind = "Prediction") => fitCount <= 1

====
